---- MODULE Spec2Model ----
(***************************************************************************)
(* Model of the static-analysis pass crates/resolver/src/resolver.rs:      *)
(* the Resolver walks the statements of a program, keeps a stack of        *)
(* lexical scopes above a global scope, records the scope depth of every   *)
(* resolved name use in `locals` and type-checks expressions.              *)
(*                                                                         *)
(* The walker's recursion over statements is modelled by an explicit       *)
(* control stack `ctl` (one frame per statement visit that is still on the *)
(* Rust call stack); the program is drawn statement by statement from      *)
(* bounded alphabets as the walker reaches it.  An expression is a value   *)
(* (a tree) and its visit is the recursive operator Eval, which threads    *)
(* the resolver state through the sub-visits exactly in the code's order.  *)
(***************************************************************************)
EXTENDS Integers, Sequences, FiniteSets, TLC

VARIABLES
    globals,         \* Resolver.globals : Scope
    scopes,          \* Resolver.scopes : Vec<Scope>
    locals,          \* Resolver.locals : HashMap<Loc, usize>
    fn_type,         \* Resolver.fn_type : FnKind
    current_struct,  \* Resolver.current_struct : Option<EcoString>
    warnings,        \* Resolver.warnings : Vec<ResolverWarning>
    errors,          \* resolve's local `errors`
    result,          \* resolve: not called ("new"), running ("none"), or its return value
    ctl,             \* the visits in progress (Rust call stack of the walker)
    idx,             \* index of the next top-level statement of `stmts`
    nTop,            \* stmts.len()
    vocab,           \* the vocabulary the statements of the program are drawn from
    stmts,           \* the statements resolve was called with, as far as walked (kept for flat programs)
    previous,        \* the return value and warnings of an earlier call of resolve on this Resolver
    budget,          \* nested statements the program may still contain
    nextLoc,         \* next fresh Loc of the program text
    inserts,         \* history: every locals.insert(loc, depth), in order
    failed,          \* history: the indexes of the top-level statements that failed
    ev               \* history: the statement whose visit was started last

vars == <<globals, scopes, locals, fn_type, current_struct, warnings, errors,
          result, ctl, idx, nTop, vocab, stmts, previous, budget, nextLoc, inserts,
          failed, ev>>

\* Total number of statements (top-level and nested, methods included) of a program.
MaxStmts == 4

-----------------------------------------------------------------------------
(* Maps (HashMap) are functions with a finite domain.                      *)

EmptyMap == [x \in {} |-> TRUE]

Put(m, k, v) == (k :> v) @@ m

Has(m, k) == k \in DOMAIN m

Last(s) == s[Len(s)]

Front(s) == SubSeq(s, 1, Len(s) - 1)

-----------------------------------------------------------------------------
(* VarType                                                                 *)

AnyT == [k |-> "Any"]
IntT == [k |-> "Int"]
FloatT == [k |-> "Float"]
StrT == [k |-> "Str"]
BoolT == [k |-> "Bool"]
NullT == [k |-> "Null"]
VoidT == [k |-> "Void"]
NativeFnT == [k |-> "NativeFn"]
StructT(n) == [k |-> "Struct", name |-> n]
FnT(args, ret) == [k |-> "Fn", args |-> args, ret |-> ret]

\* VarType::into_fn_return_type
IntoFnReturnType(t) == IF t.k = "Fn" THEN t.ret ELSE t

\* impl Default for FnType
DefaultFnType == FnT(<<>>, VoidT)

\* impl From<&Token> for VarType
TypeOfToken(v) ==
    CASE v = "any" -> AnyT
      [] v = "int" -> IntT
      [] v = "float" -> FloatT
      [] v = "str" -> StrT
      [] v = "bool" -> BoolT
      [] v = "null" -> NullT
      [] v = "void" -> VoidT
      [] OTHER -> StructT(v)

\* A type annotation (Option<VarTypeDecl>): absent, a type name, or a function type.
NoDecl == [a |-> "none"]
IdDecl(n) == [a |-> "id", name |-> n]
FnDecl(ps, r) == [a |-> "fn", params |-> ps, ret |-> r]

\* impl From<&Option<Token>> for VarType (the return type of a Fn annotation)
TypeOfOptToken(r) == IF r = "" THEN VoidT ELSE TypeOfToken(r)

\* impl From<&VarTypeDecl> for VarType
TypeOfDecl(d) ==
    IF d.a = "id" THEN TypeOfToken(d.name)
    ELSE FnT([i \in 1..Len(d.params) |-> TypeOfToken(d.params[i])], TypeOfOptToken(d.ret))

\* impl From<&Option<VarTypeDecl>> for VarType
TypeOfOptDecl(d) == IF d.a = "none" THEN VoidT ELSE TypeOfDecl(d)

\* IsCastable that accepts Int and Float in both directions
IsCastableBothWays(current_type, cast_to) ==
    {current_type, cast_to} = {IntT, FloatT}

\* Resolver::is_castable
IsCastable(current_type, cast_to) == current_type = IntT /\ cast_to = FloatT

-----------------------------------------------------------------------------
(* ResolverErr: a kind and its parameters (a list of VarType-shaped records) *)

Err(kind, args) == [kind |-> kind, args |-> args]
Word(w) == [k |-> w]

\* the `err` of a result that is Ok
NoErr == Err("none", <<>>)

LocalVarInOwnInit == Err("LocalVarInOwnInit", <<>>)
TopLevelReturn == Err("TopLevelReturn", <<>>)
SelfOutsideStruct == Err("SelfOutsideStruct", <<>>)
ReturnFromInit == Err("ReturnFromInit", <<>>)
DirectConstructorCall == Err("DirectConstructorCall", <<>>)
ConstructorReturnType == Err("ConstructorReturnType", <<>>)
NonStructFieldAccess == Err("NonStructFieldAccess", <<>>)
NonBoolBangUnary == Err("NonBoolBangUnary", <<>>)
NonNumMinusUnary == Err("NonNumMinusUnary", <<>>)
UnknownOp == Err("UnknownOp", <<>>)
VarNonType == Err("VarNonType", <<>>)
NonFnCall == Err("NonFnCall", <<>>)
UndeclaredVar(n) == Err("UndeclaredVar", <<Word(n)>>)
AlreadyDecl(kind) == Err("AlreadyDecl", <<Word(kind)>>)
UnknownType(n) == Err("UnknownType", <<Word(n)>>)
InexistantField(s, m) == Err("InexistantField", <<Word(s), Word(m)>>)
InexistantConstructor(s) == Err("InexistantConstructor", <<Word(s)>>)
InvalidOp(op, l, r) == Err("InvalidOp", <<Word(op), l, r>>)
WrongTypeAssign(from, to) == Err("WrongTypeAssign", <<from, to>>)
WrongTypeLogical(l, r) == Err("WrongTypeLogical", <<l, r>>)
WrongVarType(t) == Err("WrongVarType", <<t>>)
NoTypeDeclButReturnOne(t) == Err("NoTypeDeclButReturnOne", <<t>>)
NoReturnButDeclOne(t) == Err("NoReturnButDeclOne", <<t>>)
WrongReturnType(decl, got) == Err("WrongReturnType", <<decl, got>>)
WrongArgsNb(decl, got) == Err("WrongArgsNb", <<[k |-> "usize", n |-> decl], [k |-> "usize", n |-> got]>>)
WrongArgsType(decl, got) == Err("WrongArgsType", <<decl, got>>)

-----------------------------------------------------------------------------
(* Scope and the scope manager.  The operators below work on a record      *)
(* R = [globals, scopes, locals, fn_type, current_struct, warnings,        *)
(* inserts]: the Resolver (struct Resolver) with its insert history.       *)

\* struct Scope (Default); `log` is a history field: the names declare_name
\* has inserted into this scope, in order.
NewScope == [variables |-> EmptyMap, var_types |-> EmptyMap, types_def |-> EmptyMap,
             log |-> <<>>]

\* struct StructType
StructType(n, f, m) == [name |-> n, fields |-> f, methods |-> m]

BuiltinTypeNames == {"any", "int", "float", "str", "bool", "void"}

\* Resolver::set_globals
SetGlobals ==
    [variables |-> [n \in {"true", "false", "null", "clock"} |-> TRUE],
     var_types |-> [n \in {"true", "false", "null", "clock"} |->
                      CASE n = "null" -> NullT
                        [] n = "clock" -> NativeFnT
                        [] OTHER -> BoolT],
     types_def |-> [n \in BuiltinTypeNames |-> StructType("", EmptyMap, EmptyMap)],
     log |-> <<>>]

\* Resolver::begin_scope
BeginScope(R) == [R EXCEPT !.scopes = Append(@, NewScope)]

\* Resolver::end_scope (Vec::pop of an empty vector is a no-op)
EndScope(R) == [R EXCEPT !.scopes = IF @ = <<>> THEN @ ELSE Front(@)]

\* the scope level declare_name, define_name and init_var_type work on
TopLevel(R) == IF R.scopes = <<>> THEN R.globals ELSE Last(R.scopes)

SetTopLevel(R, sc) ==
    IF R.scopes = <<>> THEN [R EXCEPT !.globals = sc]
    ELSE [R EXCEPT !.scopes[Len(R.scopes)] = sc]

\* FindLocal that counts the scopes from 1
RECURSIVE FindLocalFromOne(_, _, _)
FindLocalFromOne(scs, name, i) ==
    IF i >= Len(scs) THEN -1
    ELSE LET scope == scs[Len(scs) - i]
         IN  IF Has(scope.variables, name) /\ scope.variables[name]
             THEN i + 1
             ELSE FindLocalFromOne(scs, name, i + 1)

\* FindLocal without the rev(): the scopes are searched, and counted, from the
\* outermost one
RECURSIVE FindLocalFromBottom(_, _, _)
FindLocalFromBottom(scs, name, i) ==
    IF i >= Len(scs) THEN -1
    ELSE LET scope == scs[i + 1]
         IN  IF Has(scope.variables, name) /\ scope.variables[name]
             THEN i
             ELSE FindLocalFromBottom(scs, name, i + 1)

\* the search of resolve_local: scopes.iter().rev().enumerate()
RECURSIVE FindLocal(_, _, _)
FindLocal(scs, name, i) ==
    IF i >= Len(scs) THEN -1
    ELSE LET scope == scs[Len(scs) - i]
         IN  IF Has(scope.variables, name) /\ scope.variables[name]
             THEN i
             ELSE FindLocal(scs, name, i + 1)

\* ResolveLocal with an insert that adds one to the depth of an entry that is
\* already there
ResolveLocalBump(R, loc, name) ==
    LET i == FindLocal(R.scopes, name, 0)
        d == IF Has(R.locals, loc) THEN R.locals[loc] + 1 ELSE i
    IN  IF i >= 0
        THEN [r |-> [R EXCEPT !.locals = Put(@, loc, d),
                              !.inserts = Append(@, <<loc, d>>)],
              ok |-> TRUE, err |-> NoErr]
        ELSE IF ~Has(R.globals.variables, name)
        THEN [r |-> R, ok |-> FALSE, err |-> UndeclaredVar(name)]
        ELSE [r |-> R, ok |-> TRUE, err |-> NoErr]

\* Resolver::resolve_local: [r |-> the state after, ok, err]
ResolveLocal(R, loc, name) ==
    LET i == FindLocal(R.scopes, name, 0)
    IN  IF i >= 0
        THEN [r |-> [R EXCEPT !.locals = Put(@, loc, i),
                              !.inserts = Append(@, <<loc, i>>)],
              ok |-> TRUE, err |-> NoErr]
        ELSE IF ~Has(R.globals.variables, name)
        THEN [r |-> R, ok |-> FALSE, err |-> UndeclaredVar(name)]
        ELSE [r |-> R, ok |-> TRUE, err |-> NoErr]

\* DeclareName that inserts the name before it looks whether it was there
DeclareNameClobber(R, name, decl_type) ==
    LET put == SetTopLevel(R, [TopLevel(R) EXCEPT !.variables = Put(@, name, FALSE)])
    IN  IF Has(TopLevel(R).variables, name)
        THEN [r |-> put, ok |-> FALSE, err |-> AlreadyDecl(decl_type)]
        ELSE [r |-> SetTopLevel(R, [TopLevel(put) EXCEPT !.log = Append(@, name)]),
              ok |-> TRUE, err |-> NoErr]

\* DeclareName that inserts the name as initialized
DeclareNameDefined(R, name, decl_type) ==
    IF Has(TopLevel(R).variables, name)
    THEN [r |-> R, ok |-> FALSE, err |-> AlreadyDecl(decl_type)]
    ELSE [r |-> SetTopLevel(R, [TopLevel(R) EXCEPT !.variables = Put(@, name, TRUE),
                                                   !.log = Append(@, name)]),
          ok |-> TRUE, err |-> NoErr]

\* DeclareName without the look-up of the name
DeclareNameNoCheck(R, name, decl_type) ==
    [r |-> SetTopLevel(R, [TopLevel(R) EXCEPT !.variables = Put(@, name, FALSE),
                                              !.log = Append(@, name)]),
     ok |-> TRUE, err |-> NoErr]

\* Resolver::declare_name: [r, ok, err]
DeclareName(R, name, decl_type) ==
    IF Has(TopLevel(R).variables, name)
    THEN [r |-> R, ok |-> FALSE, err |-> AlreadyDecl(decl_type)]
    ELSE [r |-> SetTopLevel(R, [TopLevel(R) EXCEPT !.variables = Put(@, name, FALSE),
                                                   !.log = Append(@, name)]),
          ok |-> TRUE, err |-> NoErr]

\* Resolver::define_name
DefineName(R, name) ==
    SetTopLevel(R, [TopLevel(R) EXCEPT !.variables = Put(@, name, TRUE)])

\* Resolver::init_var_type
InitVarType(R, name, t) ==
    SetTopLevel(R, [TopLevel(R) EXCEPT !.var_types = Put(@, name, t)])

\* UpdateVarType that writes the type where init_var_type would: into the
\* innermost scope
UpdateVarTypeInnermost(R, name, t, loc) == InitVarType(R, name, t)

\* UpdateVarType that always writes the type into globals
UpdateVarTypeGlobals(R, name, t, loc) ==
    [R EXCEPT !.globals.var_types = Put(@, name, t)]

\* Resolver::update_var_type
UpdateVarType(R, name, t, loc) ==
    IF Has(R.locals, loc) /\ R.locals[loc] < Len(R.scopes)
    THEN [R EXCEPT !.scopes[Len(R.scopes) - R.locals[loc]].var_types = Put(@, name, t)]
    ELSE [R EXCEPT !.globals.var_types = Put(@, name, t)]

\* Resolver::declare_type: [r, ok, err]
DeclareType(R, st) ==
    IF Has(TopLevel(R).types_def, st.name)
    THEN [r |-> R, ok |-> FALSE, err |-> AlreadyDecl("type")]
    ELSE [r |-> SetTopLevel(R, [TopLevel(R) EXCEPT !.types_def = Put(@, st.name, st)]),
          ok |-> TRUE, err |-> NoErr]

\* Resolver::check_type_exists
CheckTypeExists(R, type_name) ==
    \/ Has(R.globals.types_def, type_name)
    \/ \E j \in 1..Len(R.scopes) : Has(R.scopes[j].types_def, type_name)

\* Resolver::get_var_type, the search of the scope stack from the top:
\* [ok, ty]
RECURSIVE GetVarTypeFrom(_, _, _)
GetVarTypeFrom(R, name, j) ==
    IF j = 0
    THEN IF Has(R.globals.var_types, name)
         THEN [ok |-> TRUE, ty |-> R.globals.var_types[name]]
         ELSE IF Has(R.globals.types_def, name)
         THEN [ok |-> TRUE, ty |-> StructT(R.globals.types_def[name].name)]
         ELSE [ok |-> FALSE, ty |-> VoidT]
    ELSE IF Has(R.scopes[j].var_types, name)
         THEN [ok |-> TRUE, ty |-> R.scopes[j].var_types[name]]
         ELSE IF Has(R.scopes[j].types_def, name)
         THEN [ok |-> TRUE, ty |-> StructT(R.scopes[j].types_def[name].name)]
         ELSE GetVarTypeFrom(R, name, j - 1)

GetVarType(R, name) == GetVarTypeFrom(R, name, Len(R.scopes))

\* Resolver::get_type_def: [ok, def]
RECURSIVE GetTypeDefFrom(_, _, _)
GetTypeDefFrom(R, name, j) ==
    IF j = 0
    THEN IF Has(R.globals.types_def, name)
         THEN [ok |-> TRUE, def |-> R.globals.types_def[name]]
         ELSE [ok |-> FALSE, def |-> StructType("", EmptyMap, EmptyMap)]
    ELSE IF Has(R.scopes[j].types_def, name)
         THEN [ok |-> TRUE, def |-> R.scopes[j].types_def[name]]
         ELSE GetTypeDefFrom(R, name, j - 1)

GetTypeDef(R, name) == GetTypeDefFrom(R, name, Len(R.scopes))

-----------------------------------------------------------------------------
(* Expressions (frontend::ast::expr::Expr).  Identifier, Assign and Self   *)
(* carry the Loc that keys `locals`.                                       *)

IntLit == [e |-> "Int"]
FloatLit == [e |-> "Float"]
StrLit == [e |-> "Str"]
Ident(n, l) == [e |-> "Identifier", name |-> n, loc |-> l]
Grouping(x) == [e |-> "Grouping", expr |-> x]
Unary(op, x) == [e |-> "Unary", operator |-> op, right |-> x]
Binary(op, x, y) == [e |-> "Binary", operator |-> op, left |-> x, right |-> y]
Logical(x, y) == [e |-> "Logical", left |-> x, right |-> y]
Assign(n, l, v) == [e |-> "Assign", name |-> n, loc |-> l, value |-> v]
Call(c, as) == [e |-> "Call", callee |-> c, args |-> as]
Get(o, m) == [e |-> "Get", object |-> o, name |-> m]
Set(o, m, v) == [e |-> "Set", object |-> o, name |-> m, value |-> v]
SelfE(l) == [e |-> "Self", name |-> "self", loc |-> l]
Is(x, t) == [e |-> "Is", left |-> x, typ |-> t]

\* results of an expression visit (ResolverExprRes) with the resolver after it
Ok(R, t) == [r |-> R, ok |-> TRUE, ty |-> t, err |-> NoErr]
Er(R, e) == [r |-> R, ok |-> FALSE, ty |-> VoidT, err |-> e]

Numeric(t) == t = IntT \/ t = FloatT

\* the match of visit_binary_expr on (operator, lhs, rhs):
\* [ok, ty, warn] with warn = TRUE where CompIntFloat is pushed
BinaryType(op, l, r) ==
    LET no == [ok |-> FALSE, ty |-> VoidT, warn |-> FALSE]
        yes(t) == [ok |-> TRUE, ty |-> t, warn |-> FALSE]
        arith == IF l = IntT /\ r = IntT THEN yes(IntT)
                 ELSE IF Numeric(l) /\ Numeric(r) THEN yes(FloatT)
                 ELSE no
    IN  CASE op = "+" -> IF l = StrT /\ r = StrT THEN yes(StrT) ELSE arith
          [] op \in {"-", "/", "%"} -> arith
          [] op = "*" -> IF (l = IntT /\ r = StrT) \/ (l = StrT /\ r = IntT)
                         THEN yes(StrT) ELSE arith
          [] op \in {"<", ">", "<=", ">="} ->
                 IF Numeric(l) /\ l = r THEN yes(BoolT)
                 ELSE IF Numeric(l) /\ Numeric(r)
                 THEN [ok |-> TRUE, ty |-> BoolT, warn |-> TRUE]
                 ELSE no
          [] op \in {"==", "!="} ->
                 IF l \in {IntT, FloatT, StrT, BoolT} /\ l = r THEN yes(BoolT)
                 ELSE IF Numeric(l) /\ Numeric(r)
                 THEN [ok |-> TRUE, ty |-> BoolT, warn |-> TRUE]
                 ELSE IF l.k = "Struct" /\ r.k = "Struct" THEN yes(BoolT)
                 ELSE no
          [] OTHER -> no

KnownOps == {"+", "-", "/", "%", "*", "<", ">", "<=", ">=", "==", "!="}

\* StructType::get_member_type: [ok, ty]
GetMemberType(def, member) ==
    IF Has(def.fields, member) THEN [ok |-> TRUE, ty |-> def.fields[member]]
    ELSE IF Has(def.methods, member) THEN [ok |-> TRUE, ty |-> def.methods[member]]
    ELSE [ok |-> FALSE, ty |-> VoidT]

\* the loop of visit_call_expr over (call_arg, arg_decl): index of the first
\* argument whose type is refused, 0 when all are accepted
RECURSIVE FirstBadArg(_, _, _)
FirstBadArg(call_args, decl, i) ==
    IF i > Len(call_args) \/ i > Len(decl) THEN 0
    ELSE LET call_arg == IF decl[i].k # "Fn" THEN IntoFnReturnType(call_args[i])
                         ELSE call_args[i]
         IN  IF call_arg # decl[i] /\ ~IsCastable(call_arg, decl[i]) THEN i
             ELSE FirstBadArg(call_args, decl, i + 1)

RECURSIVE Eval(_, _)
RECURSIVE EvalArgs(_, _, _)

\* the visits of a list of expressions in order, stopping at the first error:
\* [r, ok, tys, err]
EvalArgs(as, R, i) ==
    IF i > Len(as) THEN [r |-> R, ok |-> TRUE, tys |-> <<>>, err |-> NoErr]
    ELSE LET v == Eval(as[i], R)
         IN  IF ~v.ok THEN [r |-> v.r, ok |-> FALSE, tys |-> <<>>, err |-> v.err]
             ELSE LET rest == EvalArgs(as, v.r, i + 1)
                  IN  [rest EXCEPT !.tys = <<v.ty>> \o @]

\* impl VisitExpr<VarType, ResolverErr> for Resolver
Eval(e, R) ==
    CASE e.e = "Int" -> Ok(R, IntT)
      [] e.e = "Float" -> Ok(R, FloatT)
      [] e.e = "Str" -> Ok(R, StrT)
      [] e.e = "Grouping" -> Eval(e.expr, R)
      [] e.e = "Identifier" ->
            IF /\ R.scopes # <<>>
               /\ Has(Last(R.scopes).variables, e.name)
               /\ ~Last(R.scopes).variables[e.name]
            THEN Er(R, LocalVarInOwnInit)
            ELSE LET rl == ResolveLocal(R, e.loc, e.name)
                     gv == GetVarType(rl.r, e.name)
                 IN  IF ~rl.ok THEN Er(rl.r, rl.err)
                     ELSE IF ~gv.ok THEN Er(rl.r, VarNonType)
                     ELSE Ok(rl.r, gv.ty)
      [] e.e = "Unary" ->
            LET v == Eval(e.right, R)
            IN  IF ~v.ok THEN v
                ELSE IF e.operator = "-" /\ ~Numeric(v.ty) THEN Er(v.r, NonNumMinusUnary)
                ELSE IF e.operator = "!" /\ v.ty # BoolT THEN Er(v.r, NonBoolBangUnary)
                ELSE v
      [] e.e = "Binary" ->
            LET l == Eval(e.left, R)
                r == Eval(e.right, l.r)
                lhs == IntoFnReturnType(l.ty)
                rhs == IntoFnReturnType(r.ty)
                b == BinaryType(e.operator, lhs, rhs)
            IN  IF ~l.ok THEN l
                ELSE IF ~r.ok THEN r
                ELSE IF e.operator \notin KnownOps THEN Er(r.r, UnknownOp)
                ELSE IF ~b.ok THEN Er(r.r, InvalidOp(e.operator, lhs, rhs))
                ELSE IF b.warn
                THEN Ok([r.r EXCEPT !.warnings = Append(@, "CompIntFloat")], b.ty)
                ELSE Ok(r.r, b.ty)
      [] e.e = "Logical" ->
            LET r == Eval(e.right, R)
                l == Eval(e.left, r.r)
            IN  IF ~r.ok THEN r
                ELSE IF ~l.ok THEN l
                ELSE IF l.ty # r.ty THEN Er(l.r, WrongTypeLogical(l.ty, l.ty))
                ELSE Ok(l.r, r.ty)
      [] e.e = "Assign" ->
            LET rl == ResolveLocal(R, e.loc, e.name)
                v1 == Eval(e.value, rl.r)
                gv == GetVarType(v1.r, e.name)
                v2 == Eval(e.value, v1.r)
            IN  IF ~rl.ok THEN Er(rl.r, rl.err)
                ELSE IF ~v1.ok THEN v1
                ELSE IF ~gv.ok THEN Er(v1.r, VarNonType)
                ELSE IF ~v2.ok THEN v2
                ELSE IF gv.ty = v2.ty THEN Ok(v2.r, gv.ty)
                ELSE IF gv.ty = AnyT
                THEN Ok(UpdateVarType(v2.r, e.name, v2.ty, e.loc), gv.ty)
                ELSE IF ~IsCastable(v2.ty, gv.ty)
                THEN Er(v2.r, WrongTypeAssign(v2.ty, gv.ty))
                ELSE Ok(v2.r, gv.ty)
      [] e.e = "Call" ->
            LET c == Eval(e.callee, R)
                a == EvalArgs(e.args, c.r, 1)
                td == GetTypeDef(a.r, c.ty.name)
                f == IF c.ty.k = "Struct" THEN td.def.methods["init"] ELSE c.ty
                bad == FirstBadArg(a.tys, f.args, 1)
                a2 == EvalArgs(e.args, a.r, 1)
            IN  IF ~c.ok THEN c
                ELSE IF ~a.ok THEN Er(a.r, a.err)
                ELSE IF c.ty.k \notin {"Struct", "Fn"} THEN Er(a.r, NonFnCall)
                ELSE IF c.ty.k = "Struct" /\ ~td.ok THEN Er(a.r, UnknownType(c.ty.name))
                ELSE IF c.ty.k = "Struct" /\ ~Has(td.def.methods, "init")
                THEN Er(a.r, InexistantConstructor(c.ty.name))
                ELSE IF f.k # "Fn" THEN Er(a.r, InexistantConstructor(c.ty.name))
                ELSE IF Len(f.args) # Len(e.args)
                THEN Er(a.r, WrongArgsNb(Len(f.args), Len(e.args)))
                ELSE IF bad # 0
                THEN Er(a.r, WrongArgsType(f.args[bad],
                            IF f.args[bad].k # "Fn" THEN IntoFnReturnType(a.tys[bad])
                            ELSE a.tys[bad]))
                ELSE IF ~a2.ok THEN Er(a2.r, a2.err)
                ELSE Ok(a2.r, IntoFnReturnType(c.ty))
      [] e.e = "Get" ->
            LET o == Eval(e.object, R)
                td == GetTypeDef(o.r, o.ty.name)
                m == GetMemberType(td.def, e.name)
            IN  IF e.name = "init" THEN Er(R, DirectConstructorCall)
                ELSE IF ~o.ok THEN o
                ELSE IF o.ty.k # "Struct" THEN Er(o.r, NonStructFieldAccess)
                ELSE IF ~td.ok THEN Er(o.r, UnknownType(o.ty.name))
                ELSE IF ~m.ok THEN Er(o.r, InexistantField(td.def.name, e.name))
                ELSE Ok(o.r, m.ty)
      [] e.e = "Set" ->
            LET o == Eval(e.object, R)
                v == Eval(e.value, o.r)
                td == GetTypeDef(v.r, o.ty.name)
                m == GetMemberType(td.def, e.name)
            IN  IF ~o.ok THEN o
                ELSE IF ~v.ok THEN v
                ELSE IF o.ty.k # "Struct" THEN Er(v.r, NonStructFieldAccess)
                ELSE IF ~td.ok THEN Er(v.r, UnknownType(o.ty.name))
                ELSE IF ~m.ok THEN Er(v.r, InexistantField(td.def.name, e.name))
                ELSE IF m.ty # v.ty /\ ~IsCastable(v.ty, m.ty)
                THEN Er(v.r, WrongTypeAssign(v.ty, m.ty))
                ELSE Ok(v.r, o.ty)
      [] e.e = "Self" ->
            LET rl == ResolveLocal(R, e.loc, e.name)
            IN  IF R.current_struct = <<>> THEN Er(R, SelfOutsideStruct)
                ELSE IF ~rl.ok THEN Er(rl.r, rl.err)
                ELSE Ok(rl.r, StructT(R.current_struct[1]))
      [] e.e = "Is" ->
            LET l == Eval(e.left, R)
                right_type == TypeOfToken(e.typ)
            IN  IF ~l.ok THEN l
                ELSE IF ~CheckTypeExists(l.r, e.typ) THEN Er(l.r, UnknownType(e.typ))
                ELSE IF l.ty # right_type THEN Er(l.r, WrongVarType(right_type))
                ELSE Ok(l.r, BoolT)

-----------------------------------------------------------------------------
(* Statements (frontend::ast::stmt::Stmt) and their visits.  A visit       *)
(* returns [r, ok, err, push]: the resolver after it, whether it went on   *)
(* without error, the error, and the frame of the visit when the visit has *)
(* sub-statements still to walk.                                           *)

\* Option<T>: <<>> is None, <<x>> is Some(x)
None == <<>>
Some(x) == <<x>>

\* a parameter or a field: a name and its type annotation
Param(n, t) == [name |-> n, typ |-> t]

VarDeclS(n, t, v) == [op |-> "VarDecl", name |-> n, typ |-> t, value |-> v]
ExprS(x) == [op |-> "Expr", expr |-> x]
PrintS(x) == [op |-> "Print", expr |-> x]
BlockS == [op |-> "Block"]
IfS(c, n) == [op |-> "If", condition |-> c, branches |-> n]
WhileS(c) == [op |-> "While", condition |-> c]
ForS(n) == [op |-> "For", placeholder |-> n]
FnDeclS(n, ps, r) == [op |-> "FnDecl", name |-> n, params |-> ps, return_type |-> r]
ReturnS(v) == [op |-> "Return", value |-> v]
StructS(n, fs, ms) == [op |-> "Struct", name |-> n, fields |-> fs, methods |-> ms]

\* frames of the control stack: the visit of a statement that has
\* sub-statements left to walk
BlockF == [k |-> "block"]
IfF(n) == [k |-> "if", left |-> n]
WhileF == [k |-> "while"]
ForF(st) == [k |-> "for", st |-> st]
\* `seen` and `returned` are history fields: the types of the return
\* statements visited so far whose nearest enclosing function is this one
\* (Void without a value), and whether one of them stood directly in the body
FnF(name, typ, prev, decl) ==
    [k |-> "fn", name |-> name, typ |-> typ, prev_fn_type |-> prev, return_type |-> None,
     decl |-> decl, seen |-> {}, returned |-> FALSE]
StructF(n, ms) == [k |-> "struct", name |-> n, methods |-> ms]

Good(R, push) == [r |-> R, ok |-> TRUE, err |-> NoErr, push |-> push]
Bad(R, e) == [r |-> R, ok |-> FALSE, err |-> e, push |-> <<>>]

\* visit_expr_stmt and visit_print_stmt
VisitExprStmt(R, stmt) ==
    LET v == Eval(stmt.expr, R)
    IN  IF v.ok THEN Good(v.r, <<>>) ELSE Bad(v.r, v.err)

\* the type names of an annotation that visit_var_decl_stmt checks, in the
\* order it checks them
DeclTypeNames(d) ==
    CASE d.a = "none" -> <<>>
      [] d.a = "id" -> <<d.name>>
      [] d.a = "fn" -> (IF d.ret = "" THEN <<>> ELSE <<d.ret>>) \o d.params

\* VisitVarDeclStmt that takes the declaration back when it fails
VisitVarDeclStmtRollback(R, stmt) ==
    LET d == DeclareName(R, stmt.name, "variable")
        tn == DeclTypeNames(stmt.typ)
        unknown == {i \in 1..Len(tn) : ~CheckTypeExists(d.r, tn[i])}
        first == CHOOSE i \in unknown : \A j \in unknown : i <= j
        decl_type == IF stmt.typ.a = "none" THEN AnyT ELSE TypeOfDecl(stmt.typ)
        v == Eval(stmt.value[1], d.r)
        final_type == IF stmt.value = None THEN decl_type
                      ELSE IF decl_type # AnyT /\ decl_type # v.ty THEN decl_type
                      ELSE v.ty
        after == IF stmt.value = None THEN d.r ELSE v.r
    IN  IF ~d.ok THEN Bad(d.r, d.err)
        ELSE IF unknown # {} THEN Bad(R, UnknownType(tn[first]))
        ELSE IF stmt.value # None /\ ~v.ok THEN Bad(R, v.err)
        ELSE IF /\ stmt.value # None
                /\ decl_type # AnyT /\ decl_type # v.ty
                /\ ~IsCastable(v.ty, decl_type)
        THEN Bad(R, WrongTypeAssign(v.ty, decl_type))
        ELSE Good(InitVarType(DefineName(after, stmt.name), stmt.name, final_type), <<>>)

\* visit_var_decl_stmt
VisitVarDeclStmt(R, stmt) ==
    LET d == DeclareName(R, stmt.name, "variable")
        tn == DeclTypeNames(stmt.typ)
        unknown == {i \in 1..Len(tn) : ~CheckTypeExists(d.r, tn[i])}
        first == CHOOSE i \in unknown : \A j \in unknown : i <= j
        decl_type == IF stmt.typ.a = "none" THEN AnyT ELSE TypeOfDecl(stmt.typ)
        v == Eval(stmt.value[1], d.r)
        final_type == IF stmt.value = None THEN decl_type
                      ELSE IF decl_type # AnyT /\ decl_type # v.ty THEN decl_type
                      ELSE v.ty
        after == IF stmt.value = None THEN d.r ELSE v.r
    IN  IF ~d.ok THEN Bad(d.r, d.err)
        ELSE IF unknown # {} THEN Bad(d.r, UnknownType(tn[first]))
        ELSE IF stmt.value # None /\ ~v.ok THEN Bad(v.r, v.err)
        ELSE IF /\ stmt.value # None
                /\ decl_type # AnyT /\ decl_type # v.ty
                /\ ~IsCastable(v.ty, decl_type)
        THEN Bad(v.r, WrongTypeAssign(v.ty, decl_type))
        ELSE Good(InitVarType(DefineName(after, stmt.name), stmt.name, final_type), <<>>)

\* visit_block_stmt, up to the walk of its statements
VisitBlockStmt(R, stmt) == Good(BeginScope(R), <<BlockF>>)

\* visit_if_stmt, up to the walk of its branches
VisitIfStmt(R, stmt) ==
    LET c == Eval(stmt.condition, R)
    IN  IF ~c.ok THEN Bad(c.r, c.err)
        ELSE Good(c.r, IF stmt.branches = 0 THEN <<>> ELSE <<IfF(stmt.branches)>>)

\* visit_while_stmt, up to the walk of its body
VisitWhileStmt(R, stmt) ==
    LET c == Eval(stmt.condition, R)
    IN  IF ~c.ok THEN Bad(c.r, c.err) ELSE Good(c.r, <<WhileF>>)

\* visit_for_stmt, up to the walk of its body: the placeholder is visited as
\* a variable declaration without annotation and initializer
VisitForStmt(R, stmt) ==
    LET p == VisitVarDeclStmt(BeginScope(R), VarDeclS(stmt.placeholder, NoDecl, None))
    IN  IF ~p.ok THEN p
        ELSE Good(InitVarType(p.r, stmt.placeholder, IntT), <<ForF("body")>>)

\* Resolver::resolve_fn_type
ResolveFnType(stmt) ==
    FnT([i \in 1..Len(stmt.params) |-> TypeOfOptDecl(stmt.params[i].typ)],
        TypeOfOptDecl(stmt.return_type))

\* the loop of resolve_fn over the parameters: [r, ok, err]
RECURSIVE DeclareParams(_, _, _)
DeclareParams(R, ps, i) ==
    IF i > Len(ps) THEN [r |-> R, ok |-> TRUE, err |-> NoErr]
    ELSE LET d == DeclareName(R, ps[i].name, "variable")
         IN  IF ~d.ok THEN d
             ELSE DeclareParams(
                    InitVarType(DefineName(d.r, ps[i].name), ps[i].name,
                                TypeOfOptDecl(ps[i].typ)),
                    ps, i + 1)

\* Resolver::resolve_fn, up to the walk of the body
ResolveFn(R, stmt, typ) ==
    LET entered == BeginScope([R EXCEPT !.fn_type = typ])
        p == DeclareParams(entered, stmt.params, 1)
    IN  IF typ = "Init" /\ stmt.return_type # NoDecl THEN Bad(R, ConstructorReturnType)
        ELSE IF ~p.ok THEN Bad(p.r, p.err)
        ELSE Good(p.r, <<FnF(stmt.name, typ, R.fn_type, stmt.return_type)>>)

\* Resolver::resolve_fn, after the walk of the body: [r, ok, err, push]
ResolveFnEnd(R, f) ==
    LET declared == TypeOfDecl(f.decl)
        done == [EndScope(R) EXCEPT !.fn_type = f.prev_fn_type]
    IN  IF f.return_type # None /\ f.decl # NoDecl /\ f.return_type[1] # declared
        THEN Bad(R, WrongReturnType(declared, f.return_type[1]))
        ELSE IF f.return_type = None /\ f.decl # NoDecl /\ declared # VoidT
        THEN Bad(R, NoReturnButDeclOne(declared))
        ELSE IF f.return_type # None /\ f.decl = NoDecl /\ f.return_type[1] # VoidT
        THEN Bad(R, NoTypeDeclButReturnOne(f.return_type[1]))
        ELSE Good(done, <<>>)

\* visit_fn_decl_stmt, up to the walk of the body
VisitFnDeclStmt(R, stmt) ==
    LET d == DeclareName(R, stmt.name, "function")
    IN  IF ~d.ok THEN Bad(d.r, d.err)
        ELSE ResolveFn(InitVarType(DefineName(d.r, stmt.name), stmt.name,
                                   ResolveFnType(stmt)),
                       stmt, "Function")

\* visit_return_stmt
VisitReturnStmt(R, stmt) ==
    LET v == Eval(stmt.value[1], R)
    IN  IF R.fn_type = "None" THEN Bad(R, TopLevelReturn)
        ELSE IF R.fn_type = "Init" THEN Bad(R, ReturnFromInit)
        ELSE IF stmt.value = None THEN Good(R, <<>>)
        ELSE IF ~v.ok THEN Bad(v.r, v.err)
        ELSE Good(v.r, <<>>)

\* Resolver::struct_members_types: [ok, err, fields, methods]
StructMembersTypes(fields, methods) ==
    LET dupf == {i \in 1..Len(fields) : \E j \in 1..(i - 1) : fields[j].name = fields[i].name}
        dupm == {i \in 1..Len(methods) : \E j \in 1..(i - 1) : methods[j].name = methods[i].name}
        fnames == {fields[i].name : i \in 1..Len(fields)}
        mnames == {methods[i].name : i \in 1..Len(methods)}
        ftype(n) == LET i == CHOOSE i \in 1..Len(fields) : fields[i].name = n
                    IN  IF fields[i].typ = NoDecl THEN AnyT ELSE TypeOfDecl(fields[i].typ)
        mtype(n) == IF n \in mnames
                    THEN ResolveFnType(methods[CHOOSE i \in 1..Len(methods) : methods[i].name = n])
                    ELSE DefaultFnType
    IN  IF dupf # {}
        THEN [ok |-> FALSE, err |-> AlreadyDecl("field"), fields |-> EmptyMap, methods |-> EmptyMap]
        ELSE IF dupm # {}
        THEN [ok |-> FALSE, err |-> AlreadyDecl("method"), fields |-> EmptyMap, methods |-> EmptyMap]
        ELSE [ok |-> TRUE, err |-> NoErr,
              fields |-> [n \in fnames |-> ftype(n)],
              methods |-> [n \in mnames \cup {"init"} |-> mtype(n)]]

\* visit_struct_stmt, up to the walk of the methods
VisitStructStmt(R, stmt) ==
    LET R1 == [R EXCEPT !.current_struct = Some(stmt.name)]
        d == DeclareName(R1, stmt.name, "structure")
        R2 == DefineName(d.r, stmt.name)
        m == StructMembersTypes(stmt.fields, stmt.methods)
        t == DeclareType(R2, StructType(stmt.name, m.fields, m.methods))
        R3 == BeginScope(t.r)
        R4 == [R3 EXCEPT !.scopes[Len(R3.scopes)].variables = Put(@, "self", TRUE)]
    IN  IF ~d.ok THEN Bad(d.r, d.err)
        ELSE IF ~m.ok THEN Bad(R2, m.err)
        ELSE IF ~t.ok THEN Bad(t.r, t.err)
        ELSE Good(R4, <<StructF(stmt.name, stmt.methods)>>)

\* visit_struct_stmt, after the walk of the methods
VisitStructEnd(R) == [EndScope(R) EXCEPT !.current_struct = None]

-----------------------------------------------------------------------------
(* The programs: the statements the walker may meet at Loc l.              *)

\* The statements come from one of three vocabularies: "names" for programs
\* about declarations, uses and scopes, "types" for programs about type
\* annotations and the types of values, "flat" for programs without nested
\* statements, whose list `stmts` is kept to call resolve with it again.
Vocabularies == {"names", "types", "flat"}

VarDeclStmts(l) ==
    CASE vocab = "types" ->
            {VarDeclS("a", NoDecl, None),
             VarDeclS("a", IdDecl("float"), Some(IntLit)),
             VarDeclS("a", IdDecl("int"), Some(FloatLit)),
             VarDeclS("b", IdDecl("any"), Some(IntLit)),
             VarDeclS("b", IdDecl("int"), Some(IntLit))}
      [] vocab = "flat" ->
            {VarDeclS("a", NoDecl, None),
             VarDeclS("b", NoDecl, Some(Ident("a", l)))}
      [] OTHER ->
            {VarDeclS(n, NoDecl, None) : n \in {"a", "b"}}
            \cup {VarDeclS(n, NoDecl, Some(Ident("a", l))) : n \in {"a", "b"}}
            \cup {VarDeclS("a", IdDecl("S"), None),
                  VarDeclS("a", IdDecl("S"), Some(Ident("a", l))),
                  VarDeclS("clock", NoDecl, None)}

ExprStmts(l) ==
    CASE vocab = "types" ->
            {ExprS(Assign("a", l, IntLit)),
             ExprS(Assign("a", l, FloatLit)),
             ExprS(Logical(Ident("a", l), Ident("b", l + 1)))}
      [] vocab = "flat" ->
            {ExprS(Binary("<", IntLit, FloatLit))}
      [] OTHER ->
            {ExprS(Assign("a", l, Ident("b", l + 1))),
             ExprS(Call(Ident("a", l), <<Ident("b", l + 1)>>)),
             ExprS(SelfE(l))}

PrintStmts(l) == IF vocab = "types" THEN {} ELSE {PrintS(Ident("a", l))}

ReturnStmts(l) ==
    CASE vocab = "types" -> {}
      [] vocab = "flat" -> {ReturnS(None)}
      [] OTHER -> {ReturnS(None), ReturnS(Some(IntLit)), ReturnS(Some(Ident("b", l)))}

BlockStmts(l) == IF vocab = "flat" THEN {} ELSE {BlockS}

IfStmts(l) == IF vocab = "names" THEN {IfS(Ident("a", l), 1)} ELSE {}

WhileStmts(l) == IF vocab = "names" THEN {WhileS(IntLit)} ELSE {}

ForStmts(l) == IF vocab = "names" THEN {ForS("a")} ELSE {}

FnDeclStmts(l) ==
    CASE vocab = "types" ->
            {FnDeclS("a", <<Param("b", IdDecl("T"))>>, NoDecl)}
      [] vocab = "flat" -> {}
      [] OTHER ->
            {FnDeclS("a", <<Param("b", NoDecl)>>, NoDecl),
             FnDeclS("b", <<>>, NoDecl),
             FnDeclS("a", <<Param("b", NoDecl), Param("b", NoDecl)>>, NoDecl)}

StructStmts(l) ==
    IF vocab = "names"
    THEN {StructS("S", <<>>, <<>>),
          StructS("S", <<>>, <<FnDeclS("init", <<>>, NoDecl)>>),
          StructS("S", <<>>, <<FnDeclS("m", <<>>, NoDecl)>>)}
    ELSE {}

\* the Locs a statement uses
RECURSIVE ExprLocs(_)
ExprLocs(e) ==
    CASE e.e \in {"Identifier", "Self"} -> 1
      [] e.e = "Assign" -> 1 + ExprLocs(e.value)
      [] e.e = "Grouping" -> ExprLocs(e.expr)
      [] e.e = "Unary" -> ExprLocs(e.right)
      [] e.e \in {"Binary", "Logical"} -> ExprLocs(e.left) + ExprLocs(e.right)
      [] e.e = "Call" -> ExprLocs(e.callee)
                         + (IF e.args = <<>> THEN 0 ELSE ExprLocs(e.args[1]))
                         + (IF Len(e.args) < 2 THEN 0 ELSE ExprLocs(e.args[2]))
      [] e.e = "Get" -> ExprLocs(e.object)
      [] e.e = "Set" -> ExprLocs(e.object) + ExprLocs(e.value)
      [] e.e = "Is" -> ExprLocs(e.left)
      [] OTHER -> 0

StmtLocs(st) ==
    CASE st.op \in {"Expr", "Print"} -> ExprLocs(st.expr)
      [] st.op \in {"VarDecl", "Return"} ->
            IF st.value = None THEN 0 ELSE ExprLocs(st.value[1])
      [] st.op \in {"If", "While"} -> ExprLocs(st.condition)
      [] OTHER -> 0

-----------------------------------------------------------------------------
(* The walker.                                                             *)

\* the values of `result`
NotCalled == [tag |-> "new"]
Running == [tag |-> "none"]
Returned(tag, val) == [tag |-> tag, val |-> val]

Resolver ==
    [globals |-> globals, scopes |-> scopes, locals |-> locals, fn_type |-> fn_type,
     current_struct |-> current_struct, warnings |-> warnings, inserts |-> inserts]

Commit(R) ==
    /\ globals' = R.globals
    /\ scopes' = R.scopes
    /\ locals' = R.locals
    /\ fn_type' = R.fn_type
    /\ current_struct' = R.current_struct
    /\ warnings' = R.warnings
    /\ inserts' = R.inserts

\* the frame of the visit that walks the next statement: none at top level
Parent == IF ctl = <<>> THEN [k |-> "top"] ELSE Last(ctl)

\* a statement is due: the next of `stmts`, or the next sub-statement of the
\* innermost visit in progress
StmtDue ==
    /\ result = Running
    /\ \/ ctl = <<>> /\ idx <= nTop
       \/ Parent.k \in {"block", "fn", "if", "while"}
       \/ Parent.k = "for" /\ Parent.st = "body"

\* the control stack once the parent has handed out the statement that is due
Consume(c) ==
    IF c = <<>> THEN c
    ELSE LET f == Last(c)
         IN  CASE f.k = "for" -> [c EXCEPT ![Len(c)].st = "end"]
               [] f.k = "while" -> Front(c)
               [] f.k = "if" -> IF f.left = 1 THEN Front(c)
                                ELSE [c EXCEPT ![Len(c)].left = f.left - 1]
               [] OTHER -> c

\* sub-statements that the visits in progress still have to walk
RECURSIVE Pending(_)
Pending(c) ==
    IF c = <<>> THEN 0
    ELSE LET f == Last(c)
         IN  Pending(Front(c))
             + (CASE f.k = "for" -> IF f.st = "body" THEN 1 ELSE 0
                  [] f.k = "while" -> 1
                  [] f.k = "if" -> f.left
                  [] OTHER -> 0)

\* nested statements a statement brings with it
Carried(st) ==
    CASE st.op = "Struct" -> Len(st.methods)
      [] OTHER -> 0

Owed(st) ==
    CASE st.op \in {"For", "While"} -> 1
      [] st.op = "If" -> st.branches
      [] OTHER -> 0

BudgetAfter(st) == budget - (IF ctl = <<>> THEN 0 ELSE 1) - Carried(st)

Fits(st) == BudgetAfter(st) >= Pending(Consume(ctl)) + Owed(st)

\* the body loop of resolve_fn warns before every statement that follows a
\* return with a value
Entered ==
    IF Parent.k = "fn" /\ Parent.return_type # None
    THEN [Resolver EXCEPT !.warnings = Append(@, "UnreachAfterReturn")]
    ELSE Resolver

\* the index in `stmts` of the top-level statement being walked
CurTop == IF ctl = <<>> THEN idx ELSE idx - 1

\* where the walk goes on after a visit with outcome `out`: on Ok with the
\* control stack c; an error unwinds every visit in progress (each `?`) to the
\* loop of resolve, which pushes it on `errors` and takes the next statement
Outcome(out, c) ==
    /\ ctl' = IF out.ok THEN c ELSE <<>>
    /\ errors' = IF out.ok THEN errors ELSE Append(errors, out.err)
    /\ failed' = IF out.ok THEN failed ELSE Append(failed, CurTop)

\* resolve was called on this Resolver before
CalledBefore == previous.result # NotCalled

\* st is the statement due of the list resolve was called with: a later call
\* is made with the list of the first one
Called(st) == CalledBefore => st = stmts[idx]

\* the visit of statement st, walked from control stack c, with outcome `out`
Step(st, out, c) ==
    /\ Commit(out.r)
    /\ ev' = st
    /\ nextLoc' = nextLoc + StmtLocs(st)
    /\ budget' = BudgetAfter(st)
    /\ idx' = IF ctl = <<>> THEN idx + 1 ELSE idx
    /\ Outcome(out, Consume(c) \o out.push)
    /\ Called(st)
    /\ stmts' = IF vocab = "flat" /\ ~CalledBefore THEN Append(stmts, st) ELSE stmts
    /\ UNCHANGED <<result, nTop, vocab, previous>>

\* the end of a visit in progress
Leave(out, note) ==
    /\ Commit(out.r)
    /\ ev' = [op |-> note]
    /\ Outcome(out, Front(ctl))
    /\ UNCHANGED <<result, nTop, vocab, stmts, previous, idx, budget, nextLoc>>

\* Resolver::resolve, its call of set_globals
ResolveStart ==
    /\ result = NotCalled
    /\ result' = Running
    /\ globals' = SetGlobals
    /\ UNCHANGED <<scopes, locals, fn_type, current_struct, warnings, errors, ctl,
                   idx, nTop, vocab, stmts, previous,
                   budget, nextLoc, inserts, failed, ev>>

VisitExpr ==
    /\ StmtDue
    /\ \E st \in ExprStmts(nextLoc) :
          Fits(st) /\ Step(st, VisitExprStmt(Entered, st), ctl)

VisitPrint ==
    /\ StmtDue
    /\ \E st \in PrintStmts(nextLoc) :
          Fits(st) /\ Step(st, VisitExprStmt(Entered, st), ctl)

VisitVarDecl ==
    /\ StmtDue
    /\ \E st \in VarDeclStmts(nextLoc) :
          Fits(st) /\ Step(st, VisitVarDeclStmt(Entered, st), ctl)

VisitBlock ==
    /\ StmtDue
    /\ \E st \in BlockStmts(nextLoc) :
          Fits(st) /\ Step(st, VisitBlockStmt(Entered, st), ctl)

EndBlock ==
    /\ result = Running
    /\ Parent.k = "block"
    /\ Leave(Good(EndScope(Resolver), <<>>), "EndBlock")

VisitIf ==
    /\ StmtDue
    /\ \E st \in IfStmts(nextLoc) :
          Fits(st) /\ Step(st, VisitIfStmt(Entered, st), ctl)

VisitWhile ==
    /\ StmtDue
    /\ \E st \in WhileStmts(nextLoc) :
          Fits(st) /\ Step(st, VisitWhileStmt(Entered, st), ctl)

VisitFor ==
    /\ StmtDue
    /\ \E st \in ForStmts(nextLoc) :
          Fits(st) /\ Step(st, VisitForStmt(Entered, st), ctl)

EndFor ==
    /\ result = Running
    /\ Parent.k = "for" /\ Parent.st = "end"
    /\ Leave(Good(EndScope(Resolver), <<>>), "EndFor")

VisitFnDecl ==
    /\ StmtDue
    /\ \E st \in FnDeclStmts(nextLoc) :
          Fits(st) /\ Step(st, VisitFnDeclStmt(Entered, st), ctl)

EndFn ==
    /\ result = Running
    /\ Parent.k = "fn"
    /\ Leave(ResolveFnEnd(Resolver, Parent), "EndFn")

\* the control stack with type t added to the history of the innermost
\* function frame
NoteReturn(c, t) ==
    LET fns == {i \in 1..Len(c) : c[i].k = "fn"}
        top == CHOOSE i \in fns : \A j \in fns : j <= i
    IN  IF fns = {} THEN c
        ELSE [c EXCEPT ![top].seen = @ \cup {t},
                       ![top].returned = @ \/ top = Len(c)]

\* a return statement; in the body loop of resolve_fn its value is first
\* visited for return_type
VisitReturn ==
    /\ StmtDue
    /\ \E st \in ReturnStmts(nextLoc) :
          /\ Fits(st)
          /\ LET t == IF st.value = None THEN VoidT ELSE Eval(st.value[1], Entered).ty
                 noted == NoteReturn(ctl, t)
             IN  IF Parent.k = "fn" /\ st.value # None
                 THEN LET v == Eval(st.value[1], Entered)
                      IN  IF ~v.ok THEN Step(st, Bad(v.r, v.err), ctl)
                          ELSE Step(st, VisitReturnStmt(v.r, st),
                                    [noted EXCEPT ![Len(ctl)].return_type = Some(v.ty)])
                 ELSE Step(st, VisitReturnStmt(Entered, st), noted)

VisitStruct ==
    /\ StmtDue
    /\ \E st \in StructStmts(nextLoc) :
          Fits(st) /\ Step(st, VisitStructStmt(Entered, st), ctl)

\* MethodKind that does not tell init from the other methods
MethodKindAlways(m) == "Method"

\* visit_struct_stmt, the FnKind it walks a method with
MethodKind(m) == IF m.name = "init" THEN "Init" ELSE "Method"

\* visit_struct_stmt, the next method
VisitMethod ==
    /\ result = Running
    /\ Parent.k = "struct" /\ Parent.methods # <<>>
    /\ LET m == Head(Parent.methods)
           out == ResolveFn(Resolver, m, MethodKind(m))
       IN  /\ Commit(out.r)
           /\ ev' = [m EXCEPT !.op = "Method"]
           /\ Outcome(out, [ctl EXCEPT ![Len(ctl)].methods = Tail(@)] \o out.push)
           /\ UNCHANGED <<result, nTop, vocab, stmts, previous, idx, budget, nextLoc>>

EndStruct ==
    /\ result = Running
    /\ Parent.k = "struct" /\ Parent.methods = <<>>
    /\ Leave(Good(VisitStructEnd(Resolver), <<>>), "EndStruct")

\* ResolveReturn that leaves the loop at the first error
ResolveReturnAtFirstError ==
    /\ result = Running
    /\ ctl = <<>> /\ (idx > nTop \/ errors # <<>>)
    /\ result' = IF errors # <<>> THEN Returned("Err", errors) ELSE Returned("Ok", locals)
    /\ UNCHANGED <<globals, scopes, locals, fn_type, current_struct, warnings, errors,
                   ctl, idx, nTop, vocab, stmts, previous,
                   budget, nextLoc, inserts, failed, ev>>

\* Resolver::resolve, after the loop
ResolveReturn ==
    /\ result = Running
    /\ ctl = <<>> /\ idx > nTop
    /\ result' = IF errors # <<>> THEN Returned("Err", errors) ELSE Returned("Ok", locals)
    /\ UNCHANGED <<globals, scopes, locals, fn_type, current_struct, warnings, errors,
                   ctl, idx, nTop, vocab, stmts, previous,
                   budget, nextLoc, inserts, failed, ev>>

\* Resolver::resolve called once more on the same Resolver with the same
\* `stmts`: set_globals runs again, `errors` is a new vector
ResolveAgain ==
    /\ result.tag \in {"Ok", "Err"}
    /\ ~CalledBefore
    /\ vocab = "flat"
    /\ previous' = [result |-> result, warnings |-> warnings]
    /\ result' = Running
    /\ globals' = [variables |-> SetGlobals.variables @@ globals.variables,
                   var_types |-> SetGlobals.var_types @@ globals.var_types,
                   types_def |-> SetGlobals.types_def @@ globals.types_def,
                   log |-> globals.log]
    /\ errors' = <<>>
    /\ failed' = <<>>
    /\ idx' = 1
    /\ nextLoc' = 1
    /\ UNCHANGED <<scopes, locals, fn_type, current_struct, warnings, ctl, nTop, vocab,
                   stmts, budget, inserts, ev>>

\* Resolver::default() and a program of nTop top-level statements
Init ==
    /\ globals = NewScope
    /\ scopes = <<>>
    /\ locals = EmptyMap
    /\ fn_type = "None"
    /\ current_struct = None
    /\ warnings = <<>>
    /\ errors = <<>>
    /\ result = NotCalled
    /\ ctl = <<>>
    /\ idx = 1
    /\ nTop \in 1..MaxStmts
    /\ vocab \in Vocabularies
    /\ stmts = <<>>
    /\ previous = [result |-> NotCalled, warnings |-> <<>>]
    /\ budget = MaxStmts - nTop
    /\ nextLoc = 1
    /\ inserts = <<>>
    /\ failed = <<>>
    /\ ev = [op |-> "none"]

Next ==
    \/ ResolveStart
    \/ VisitExpr
    \/ VisitPrint
    \/ VisitVarDecl
    \/ VisitBlock
    \/ EndBlock
    \/ VisitIf
    \/ VisitWhile
    \/ VisitFor
    \/ EndFor
    \/ VisitFnDecl
    \/ EndFn
    \/ VisitReturn
    \/ VisitStruct
    \/ VisitMethod
    \/ EndStruct
    \/ ResolveReturn
    \/ ResolveAgain

Spec == Init /\ [][Next]_vars

-----------------------------------------------------------------------------
(* What the claims speak of.                                               *)

\* this step starts the visit of a statement (the one in ev')
IsVisit == (idx' # idx \/ budget' # budget) /\ result' = result

\* the role of the function that lexically surrounds the statement due:
\* that of the innermost resolve_fn in progress
RECURSIVE LexFnKind(_)
LexFnKind(c) ==
    IF c = <<>> THEN "None"
    ELSE IF Last(c).k = "fn" THEN Last(c).typ
    ELSE LexFnKind(Front(c))

\* the function that lexically surrounds the statement due is the init method
\* of a structure
RECURSIVE InInit(_)
InInit(c) ==
    IF c = <<>> THEN FALSE
    ELSE IF Last(c).k = "fn"
    THEN Last(c).name = "init" /\ Len(c) > 1 /\ c[Len(c) - 1].k = "struct"
    ELSE InInit(Front(c))

\* the structure whose body lexically surrounds the statement due
RECURSIVE LexStruct(_)
LexStruct(c) ==
    IF c = <<>> THEN None
    ELSE IF Last(c).k = "struct" THEN Some(Last(c).name)
    ELSE LexStruct(Front(c))

\* the name uses of an expression: Identifier, Assign target and Self
RECURSIVE Uses(_)
Uses(e) ==
    CASE e.e \in {"Identifier", "Self"} -> {[name |-> e.name, loc |-> e.loc]}
      [] e.e = "Assign" -> {[name |-> e.name, loc |-> e.loc]} \cup Uses(e.value)
      [] e.e = "Grouping" -> Uses(e.expr)
      [] e.e = "Unary" -> Uses(e.right)
      [] e.e \in {"Binary", "Logical"} -> Uses(e.left) \cup Uses(e.right)
      [] e.e = "Call" -> Uses(e.callee) \cup UNION {Uses(e.args[i]) : i \in 1..Len(e.args)}
      [] e.e = "Get" -> Uses(e.object)
      [] e.e = "Set" -> Uses(e.object) \cup Uses(e.value)
      [] e.e = "Is" -> Uses(e.left)
      [] OTHER -> {}

StmtUses(st) ==
    CASE st.op \in {"Expr", "Print"} -> Uses(st.expr)
      [] st.op \in {"VarDecl", "Return"} -> IF st.value = None THEN {} ELSE Uses(st.value[1])
      [] st.op \in {"If", "While"} -> Uses(st.condition)
      [] OTHER -> {}

\* the scopes of the stack that hold an initialized binding of name n
Holders(n) == {j \in 1..Len(scopes) : Has(scopes[j].variables, n) /\ scopes[j].variables[n]}

Max(S) == CHOOSE x \in S : \A y \in S : y <= x

\* the scope levels: 0 is globals, j > 0 is scopes[j]
Level(j) == IF j = 0 THEN globals ELSE scopes[j]

\* C1: whenever resolve is between two top-level statements or has returned,
\* the scope stack is empty (every begin_scope was matched by an end_scope).
C1_ScopesBalanced == (result # NotCalled /\ ctl = <<>>) => scopes = <<>>

\* C2: resolve walks every top-level statement, whatever failed before; each
\* failing top-level statement leaves exactly one error, in statement order;
\* resolve returns Err(errors) exactly when some statement failed and
\* Ok(locals) otherwise.
C2_ErrorsPerStatement ==
    /\ Len(errors) = Len(failed)
    /\ \A i \in 1..Len(failed) : failed[i] \in 1..(idx - 1)
    /\ \A i, j \in 1..Len(failed) : i < j => failed[i] < failed[j]
    /\ result.tag \in {"Ok", "Err"} =>
          /\ idx = nTop + 1
          /\ result.tag = "Err" <=> failed # <<>>
          /\ result.val = (IF failed # <<>> THEN errors ELSE locals)

C2_Witness ==
    /\ result.tag = "Err"
    /\ failed = <<1, 3>>

\* C3: a use of a name that some scope of the stack holds initialized gets
\* locals[loc] = the number of scopes above the innermost such scope; it gets
\* that entry whenever its statement succeeds; a use of a name that no scope
\* of the stack holds initialized (a global) gets no entry.
C3_DepthOfUse ==
    [][IsVisit =>
        \A u \in StmtUses(ev') :
            IF Holders(u.name) = {}
            THEN ~Has(locals', u.loc)
            ELSE /\ Has(locals', u.loc) =>
                       locals'[u.loc] = Cardinality({j \in 1..Len(scopes) :
                                                       j > Max(Holders(u.name))})
                 /\ errors' = errors => Has(locals', u.loc)]_vars

C3_Witness ==
    /\ \E l \in DOMAIN locals : locals[l] = 2
    /\ \E l \in DOMAIN locals : locals[l] = 0

\* C4: fn_type is the role of the function that lexically surrounds the
\* statement due, None outside every function and method body.
C4_FnKindLexical == fn_type = LexFnKind(ctl)

\* C5: current_struct is the innermost structure whose body is being walked,
\* None outside every structure body.
C5_CurrentStructLexical == current_struct = LexStruct(ctl)

\* a variable declaration whose initializer is the declared name itself
OwnInit(st) ==
    /\ st.op = "VarDecl"
    /\ st.value # None
    /\ st.value[1].e = "Identifier"
    /\ st.value[1].name = st.name

\* C6 as stated: inside a scope, a declaration whose initializer reads the
\* declared name fails with LocalVarInOwnInit and writes nothing to locals.
C6_OwnInitIsLocalVarInOwnInit ==
    [][(IsVisit /\ OwnInit(ev') /\ scopes # <<>>) =>
        /\ errors' = Append(errors, LocalVarInOwnInit)
        /\ locals' = locals]_vars

\* C6 as amended: inside a scope, a declaration whose initializer reads the
\* declared name always fails and writes nothing to locals; the error is
\* AlreadyDecl when the scope already holds the name, else UnknownType when
\* the annotation names no known type, else LocalVarInOwnInit.
C6_OwnInitRejected ==
    [][(IsVisit /\ OwnInit(ev') /\ scopes # <<>>) =>
        /\ locals' = locals
        /\ errors' = Append(errors,
              IF Has(Last(scopes).variables, ev'.name) THEN AlreadyDecl("variable")
              ELSE IF ev'.typ # NoDecl /\ ~CheckTypeExists(Resolver, ev'.typ.name)
              THEN UnknownType(ev'.typ.name)
              ELSE LocalVarInOwnInit)]_vars

C6_Witness ==
    /\ OwnInit(ev)
    /\ errors # <<>> /\ Last(errors) = LocalVarInOwnInit
    /\ Len(scopes) = 2
    /\ Holders(ev.name) = {1}
    /\ Has(globals.variables, ev.name)
    /\ locals = EmptyMap

\* the kind that a declaration statement hands to declare_name
DeclKind(op) ==
    CASE op = "VarDecl" -> "variable"
      [] op = "FnDecl" -> "function"
      [] op = "Struct" -> "structure"

\* C7: a declaration of a name that its scope level already holds fails with
\* AlreadyDecl(kind of the new declaration) and changes no scope; a parameter
\* that repeats an earlier parameter fails with AlreadyDecl("variable") and
\* the earlier parameter keeps its flag and type.
C7_Redeclaration ==
    [][IsVisit =>
        /\ (/\ ev'.op \in {"VarDecl", "FnDecl", "Struct"}
            /\ Has(TopLevel(Resolver).variables, ev'.name)) =>
               /\ errors' = Append(errors, AlreadyDecl(DeclKind(ev'.op)))
               /\ scopes' = scopes
               /\ globals' = globals
        /\ (/\ ev'.op = "FnDecl"
            /\ ~Has(TopLevel(Resolver).variables, ev'.name)
            /\ \E i, j \in 1..Len(ev'.params) :
                  i < j /\ ev'.params[i].name = ev'.params[j].name) =>
               /\ errors' = Append(errors, AlreadyDecl("variable"))
               /\ \A i \in 1..Len(ev'.params) :
                     (\A j \in 1..(i - 1) : ev'.params[j].name # ev'.params[i].name) =>
                        (Has(Last(scopes').variables, ev'.params[i].name) =>
                           /\ Last(scopes').variables[ev'.params[i].name]
                           /\ Last(scopes').var_types[ev'.params[i].name]
                                 = TypeOfOptDecl(ev'.params[i].typ))]_vars

C7_Witness ==
    /\ ev.op = "FnDecl"
    /\ errors # <<>> /\ Last(errors) = AlreadyDecl("function")
    /\ scopes # <<>>
    /\ Has(Last(scopes).variables, ev.name)
    /\ Last(scopes).variables[ev.name]

\* C8: a return statement whose nearest enclosing function is an init method
\* fails with ReturnFromInit, in the init body or in a block nested in it,
\* without a value or with a value that is well-typed.
C8_ReturnFromInit ==
    [][(/\ IsVisit
        /\ ev'.op = "Return"
        /\ InInit(ctl)
        /\ (ev'.value = None \/ Eval(ev'.value[1], Resolver).ok)) =>
           errors' = Append(errors, ReturnFromInit)]_vars

C8_Witness ==
    /\ ev.op = "Return" /\ ev.value # None
    /\ errors # <<>> /\ Last(errors) = ReturnFromInit
    /\ Len(scopes) = 3

\* C9: every locals.insert of a run is still in locals with the depth it was
\* inserted with: no insert, also of a Loc visited several times, changes the
\* depth of an entry, and no entry is removed.
C9_LocalsMonotonic ==
    /\ \A i \in 1..Len(inserts) :
          Has(locals, inserts[i][1]) /\ locals[inserts[i][1]] = inserts[i][2]
    /\ result.tag = "Ok" => result.val = locals

C9_Witness ==
    \E i, j \in 1..Len(inserts) : i < j /\ inserts[i][1] = inserts[j][1]

\* C10 as stated: a name is in the variables of at most one scope level.
C10_NameInOneLevel ==
    \A j1, j2 \in 0..Len(scopes) :
        \A n \in DOMAIN Level(j1).variables :
            Has(Level(j2).variables, n) => j1 = j2

\* the names of a list are pairwise different
NoDup(s) == \A i, j \in 1..Len(s) : s[i] = s[j] => i = j

\* C10 as amended: in each scope level a name is declared at most once (the
\* declarations that declare_name accepted in that level are pairwise
\* different, and each is in its variables); several levels may hold the name.
C10_DeclaredOncePerLevel ==
    \A j \in 0..Len(scopes) :
        /\ NoDup(Level(j).log)
        /\ \A i \in 1..Len(Level(j).log) : Has(Level(j).variables, Level(j).log[i])

C10_Witness ==
    \E j1, j2 \in 0..Len(scopes) :
        /\ j1 < j2
        /\ \E n \in DOMAIN Level(j1).variables :
              /\ Has(Level(j2).variables, n)
              /\ n \in {Level(j1).log[i] : i \in 1..Len(Level(j1).log)}
              /\ n \in {Level(j2).log[i] : i \in 1..Len(Level(j2).log)}

\* C11: in globals and in every scope of the stack, every name with an entry
\* in var_types has an entry in variables of the same scope, and that entry
\* is initialized.
C11_TypedIsDefined ==
    \A j \in 0..Len(scopes) :
        \A n \in DOMAIN Level(j).var_types :
            Has(Level(j).variables, n) /\ Level(j).variables[n]

\* an assignment has narrowed the type of its target in the scope of the
\* stack that declares it
C11_Witness ==
    /\ ev.op = "Expr" /\ ev.expr.e = "Assign"
    /\ errors = <<>>
    /\ Has(locals, ev.expr.loc)
    /\ \E j \in 1..Len(scopes) :
          /\ Has(scopes[j].var_types, ev.expr.name)
          /\ scopes[j].var_types[ev.expr.name].k = "Fn"

\* the structure names that occur in a type, also inside an Fn type
RECURSIVE StructNames(_)
StructNames(t) ==
    CASE t.k = "Struct" -> {t.name}
      [] t.k = "Fn" -> StructNames(t.ret)
                       \cup UNION {StructNames(t.args[i]) : i \in 1..Len(t.args)}
      [] OTHER -> {}

\* the types stored in a scope level: its var_types and the fields and
\* methods of its types_def
StoredTypes(sc) ==
    {sc.var_types[n] : n \in DOMAIN sc.var_types}
    \cup UNION {{sc.types_def[s].fields[f] : f \in DOMAIN sc.types_def[s].fields}
                 \cup {sc.types_def[s].methods[m] : m \in DOMAIN sc.types_def[s].methods}
                 : s \in DOMAIN sc.types_def}

\* C12: every Struct(name) that occurs in a type stored in globals or in a
\* scope of the stack names a StructType of the types_def of globals or of a
\* scope of the stack.
C12_StructsKnown ==
    \A j \in 0..Len(scopes) :
        \A t \in StoredTypes(Level(j)) :
            \A n \in StructNames(t) :
                \E i \in 0..Len(scopes) : Has(Level(i).types_def, n)

\* C13: when resolve_fn accepts a function or method, its declared return
\* type (Void without annotation) equals the type of every return statement
\* of its body, those of nested blocks, if, while and for bodies included (a
\* return without value counting as Void).
C13_ReturnsMatchDeclared ==
    [][(/\ ev'.op = "EndFn"
        /\ ctl # <<>> /\ Last(ctl).k = "fn"
        /\ ctl' = Front(ctl)
        /\ errors' = errors) =>
           \A t \in Last(ctl).seen : t = TypeOfOptDecl(Last(ctl).decl)]_vars

\* scope level j after the step
LevelAfter(j) == IF j = 0 THEN globals' ELSE scopes'[j]

\* C14: a variable declared without annotation and initializer has type Any;
\* an assignment to a binding whose recorded type is Any records the value's
\* type in the scope level that holds the binding, from whatever nested scope
\* it is made; a recorded type other than Any never changes, and an
\* assignment to such a binding of a value whose type is neither equal nor
\* castable to it fails with WrongTypeAssign.
C14_NarrowedOnce ==
    [][/\ (/\ IsVisit /\ ev'.op = "VarDecl"
            /\ ev'.typ = NoDecl /\ ev'.value = None
            /\ errors' = errors) =>
               LET lvl == IF scopes = <<>> THEN globals' ELSE scopes'[Len(scopes)]
               IN  lvl.var_types[ev'.name] = AnyT
       /\ (IsVisit /\ ev'.op = "Expr" /\ ev'.expr.e = "Assign") =>
               LET n == ev'.expr.name
                   j == IF Holders(n) = {} THEN 0 ELSE Max(Holders(n))
                   v == Eval(ev'.expr.value, Resolver)
               IN  (v.ok /\ Has(Level(j).var_types, n)) =>
                      LET old == Level(j).var_types[n]
                          new == LevelAfter(j).var_types[n]
                      IN  IF old = AnyT
                          THEN errors' = errors /\ new = v.ty
                          ELSE /\ new = old
                               /\ IF v.ty = old \/ (v.ty = IntT /\ old = FloatT)
                                  THEN errors' = errors
                                  ELSE errors' = Append(errors, WrongTypeAssign(v.ty, old))
       /\ \A j \in 0..Len(scopes) :
              j <= Len(scopes') =>
                 \A n \in DOMAIN Level(j).var_types :
                     Level(j).var_types[n] # AnyT =>
                        LevelAfter(j).var_types[n] = Level(j).var_types[n]]_vars

\* a variable declared without annotation and initializer was narrowed to
\* Int by an assignment made inside a block, and a later assignment of a
\* Float to it has failed
C14_Witness ==
    /\ ev.op = "Expr" /\ ev.expr.e = "Assign" /\ ev.expr.name = "a"
    /\ errors # <<>> /\ Last(errors) = WrongTypeAssign(FloatT, IntT)
    /\ scopes # <<>> /\ Holders("a") = {}
    /\ globals.var_types["a"] = IntT
    /\ inserts = <<>>

\* the scope levels whose variables hold name n
DeclLevels(n) == {j \in 0..Len(scopes) : Has(Level(j).variables, n)}

\* the scopes of the stack that lexically enclose the statement due: one for
\* each block, for-loop, function body and structure body being walked
Enclosing ==
    LET live == Cardinality({i \in 1..Len(ctl) : ctl[i].k \in {"block", "for", "fn", "struct"}})
    IN  {j \in 1..Len(scopes) : j > Len(scopes) - live}

\* C15 as stated: a use at depth d + k (k >= 1) of a variable declared
\* exactly at depth d gets locals[use_loc] = k - 1.
C15_DepthIsHopsLessOne ==
    [][IsVisit =>
        \A u \in StmtUses(ev') :
            \A j \in Enclosing :
                (/\ DeclLevels(u.name) = {j} /\ Holders(u.name) = {j}
                 /\ Len(scopes) - j >= 1
                 /\ Has(locals', u.loc)) =>
                    locals'[u.loc] = Len(scopes) - j - 1]_vars

\* C15 as amended: a use at depth d + k (k >= 0) of a variable declared
\* exactly at depth d >= 1 gets locals[use_loc] = k, the number of scopes
\* between the use and the declaring scope; the entry is there whenever the
\* statement of the use succeeds.
C15_DepthIsHops ==
    [][IsVisit =>
        \A u \in StmtUses(ev') :
            \A j \in Enclosing :
                (DeclLevels(u.name) = {j} /\ Holders(u.name) = {j}) =>
                    /\ Has(locals', u.loc) => locals'[u.loc] = Len(scopes) - j
                    /\ errors' = errors => Has(locals', u.loc)]_vars

\* a name declared in exactly one enclosing scope was used two scopes deeper
C15_Witness ==
    /\ ev.op \in {"Expr", "Print"}
    /\ errors = <<>>
    /\ \E u \in StmtUses(ev) :
          /\ DeclLevels(u.name) = {Len(scopes) - 2}
          /\ Len(scopes) - 2 \in Enclosing
          /\ Has(locals, u.loc) /\ locals[u.loc] = 2

\* C16: the sub-expressions of an expression are visited in source order:
\* when the left operand of a binary or logical expression, or the callee of
\* a call, fails, the error reported is its error; and the entries of locals
\* are written in the order of their Locs in the source.
C16_SourceOrder ==
    [][(IsVisit /\ ev'.op = "Expr") =>
        /\ (/\ ev'.expr.e \in {"Binary", "Logical"}
            /\ ~Eval(ev'.expr.left, Resolver).ok) =>
               errors' = Append(errors, Eval(ev'.expr.left, Resolver).err)
        /\ (/\ ev'.expr.e = "Call"
            /\ ~Eval(ev'.expr.callee, Resolver).ok) =>
               errors' = Append(errors, Eval(ev'.expr.callee, Resolver).err)
        /\ \A i, j \in (Len(inserts) + 1)..Len(inserts') :
               i < j => inserts'[i][1] <= inserts'[j][1]]_vars

\* C17: a second run of resolve on the same list of statements gives the
\* outcome of the first: the same return value (Ok with the same locals, or
\* Err with the same errors) and the same warnings.
C17_SameOutcomeTwice ==
    (CalledBefore /\ result.tag \in {"Ok", "Err"}) =>
        /\ result.tag = previous.result.tag
        /\ result.val = previous.result.val
        /\ warnings = previous.warnings

\* C18: a variable declaration with annotation T (Any when absent) and an
\* initializer of type V, once its name is declared and its annotation is
\* found, succeeds exactly when T is Any, or V = T, or (V, T) = (Int, Float);
\* it then commits V when T is Any and T otherwise; in every other case it
\* fails with WrongTypeAssign(V, T).
C18_DeclTypeCheck ==
    [][(/\ IsVisit /\ ev'.op = "VarDecl" /\ ev'.value # None
        /\ ev'.typ.a \in {"none", "id"}
        /\ ~Has(TopLevel(Resolver).variables, ev'.name)
        /\ ev'.typ.a = "id" => CheckTypeExists(Resolver, ev'.typ.name)
        /\ Eval(ev'.value[1], DeclareName(Resolver, ev'.name, "variable").r).ok) =>
           LET T == IF ev'.typ.a = "none" THEN AnyT ELSE TypeOfDecl(ev'.typ)
               V == Eval(ev'.value[1], DeclareName(Resolver, ev'.name, "variable").r).ty
               lvl == IF scopes = <<>> THEN globals' ELSE scopes'[Len(scopes)]
           IN  IF T = AnyT \/ V = T \/ (V = IntT /\ T = FloatT)
               THEN /\ errors' = errors
                    /\ lvl.variables[ev'.name]
                    /\ lvl.var_types[ev'.name] = (IF T = AnyT THEN V ELSE T)
               ELSE errors' = Append(errors, WrongTypeAssign(V, T))]_vars

\* inside a scope, `var a: float = <Int>` was accepted and a is typed Float
C18_Witness ==
    /\ ev = VarDeclS("a", IdDecl("float"), Some(IntLit))
    /\ errors = <<>>
    /\ scopes # <<>>
    /\ Has(Last(scopes).var_types, "a") /\ Last(scopes).var_types["a"] = FloatT

\* C19: an accepted function declaration records for its name an Fn type in
\* which every parameter without annotation is Any and a missing return
\* annotation is Void, and binds every such parameter with type Any in the
\* scope of the body.
C19_UntypedParamIsAny ==
    [][(IsVisit /\ ev'.op = "FnDecl" /\ errors' = errors) =>
        LET lvl == IF scopes = <<>> THEN globals' ELSE scopes'[Len(scopes)]
            f == lvl.var_types[ev'.name]
            body == Last(scopes')
        IN  /\ f.k = "Fn"
            /\ ev'.return_type = NoDecl => f.ret = VoidT
            /\ \A i \in 1..Len(ev'.params) :
                   ev'.params[i].typ = NoDecl =>
                      /\ f.args[i] = AnyT
                      /\ body.var_types[ev'.params[i].name] = AnyT]_vars

\* C20: in a function body the type compared with the declaration is that of
\* the first return statement of the body (a later return statement does not
\* change it), and every statement that follows a return statement of the
\* body, with or without value, records an UnreachAfterReturn warning.
C20_FirstReturnDecides ==
    [][(IsVisit /\ ctl # <<>> /\ Last(ctl).k = "fn" /\ Last(ctl).returned) =>
        /\ Len(warnings') > Len(warnings)
        /\ warnings'[Len(warnings) + 1] = "UnreachAfterReturn"
        /\ (ev'.op = "Return" /\ errors' = errors) =>
               Last(ctl').return_type = Last(ctl).return_type]_vars

\* C21: a variable declaration that fails after its name was declared is not
\* taken back: the name stays at its scope level as declared, not initialized
\* and without a type; with no scope open, a later top-level declaration of
\* that name fails with AlreadyDecl and a later top-level read of it passes
\* resolve_local (no entry in locals, no UndeclaredVar) and fails with
\* VarNonType.
HalfDeclared(n) ==
    /\ scopes = <<>> /\ ctl = <<>>
    /\ Has(globals.variables, n) /\ ~globals.variables[n]
    /\ ~Has(globals.var_types, n)

C21_FailedDeclStays ==
    [][IsVisit =>
        /\ (/\ ev'.op = "VarDecl"
            /\ ~Has(TopLevel(Resolver).variables, ev'.name)
            /\ errors' # errors) =>
               LET lvl == LevelAfter(Len(scopes))
               IN  /\ Len(scopes') = Len(scopes)
                   /\ Has(lvl.variables, ev'.name)
                   /\ ~lvl.variables[ev'.name]
                   /\ ~Has(lvl.var_types, ev'.name)
        /\ (ev'.op = "VarDecl" /\ HalfDeclared(ev'.name)) =>
               /\ errors' = Append(errors, AlreadyDecl("variable"))
               /\ globals' = globals
        /\ (ev'.op = "Print" /\ ev'.expr.e = "Identifier" /\ HalfDeclared(ev'.expr.name)) =>
               /\ errors' = Append(errors, VarNonType)
               /\ locals' = locals
               /\ globals' = globals]_vars

\* a declaration failed on its annotation, a second declaration of the name
\* failed with AlreadyDecl and a read of it has just failed with VarNonType
C21_Witness ==
    /\ ev.op = "Print" /\ ev.expr.e = "Identifier"
    /\ HalfDeclared(ev.expr.name)
    /\ Len(errors) = 3
    /\ errors[1].kind = "UnknownType"
    /\ errors[2] = AlreadyDecl("variable")
    /\ errors[3] = VarNonType

====
